---- MODULE Spec2Model ----
(***************************************************************************)
(* A model of the transfer pipeline of tg-ytdl-gofile.                     *)
(*                                                                         *)
(*   Spec        the pipeline coordinator: download_command,               *)
(*               button_callback and update_status of src/bot.py, with the *)
(*               session registry (video_info_cache), the rate-limiter     *)
(*               state (last_update_time), the temp directory and a clock. *)
(*                                                                         *)
(* The handlers are coroutines on one event loop: the code between two     *)
(* awaits is one atomic action.  Strings built with '_' and taken apart    *)
(* with split('_') are sequences of '_'-free segments.                     *)
(***************************************************************************)
EXTENDS Integers, Sequences, FiniteSets, TLC

\* ---------------------------------------------------------------- bounds
MaxRequests == 2      \* /download commands in one behaviour
MaxPresses == 2       \* button presses (button_callback runs) in one behaviour
MaxTime == 2          \* seconds the clock runs

\* ------------------------------------------------------ program constants
MiB == 1048576                 \* 1024 * 1024 bytes
StatusInterval == 2            \* update_status: "if time_diff < 2: return"

\* The ids _get_video_id can return, as '_'-separated segments: "abc" and
\* "p_q" (the [\w-]+ of the URL pattern admits '_').
VideoIds == { <<"abc">>, <<"p", "q">> }

\* The sizes a download can leave on disk (bytes) and the configurations
\* the coordinator is run under.
ArtifactSizes == { 0, 10 * MiB, 50 * MiB }
CoordConfigs == [MAX_DOWNLOAD_SIZE : {20}, FORCE_GOFILE : {FALSE}, MAX_CONCURRENT_DOWNLOADS : {1}]

\* How the awaited message.edit_text of update_status can end: "ok", or
\* "error" (RetryAfter, TimedOut or any other exception: all are swallowed).
EditOutcomes == {"ok", "error"}

VARIABLES
    config,             \* config.MAX_DOWNLOAD_SIZE (MiB), config.FORCE_GOFILE,
                        \* config.MAX_CONCURRENT_DOWNLOADS
    video_info_cache,   \* bot.video_info_cache: video id -> session data
    last_update_time,   \* bot.last_update_time: status message -> time
    now,                \* time.time(), in seconds
    files,              \* the temp directory: path -> size in bytes
    status_msgs,        \* the status messages sent so far (index = message id)
    hnd,                \* the button_callback invocations
    up,                 \* one call of GoFileUploader.upload_file
    rt,                 \* the route SizeCheck chose
    fm,                 \* one resolution of a selected format by the fetch
    pg,                 \* one progress reporter (DownloadProgress, UploadProgress)
    user_data           \* context.user_data: user -> the flags kept for that user

vars == <<config, video_info_cache, last_update_time, now, files, status_msgs, hnd, up, rt, fm, pg, user_data>>

Handlers == 1..MaxPresses

\* A function without the key k (del d[k], os.remove).
Without(f, k) == [x \in DOMAIN f \ {k} |-> f[x]]

\* ------------------------------------------------------------ update_status

\* What one call of update_status(message m) at time t does when the edit it
\* awaits ends with `edit`: dropped by the 2 s throttle, sent, or failed.
StatusResult(lut, m, t, edit) ==
    IF m \in DOMAIN lut /\ t - lut[m] < StatusInterval THEN "throttled"
    ELSE IF edit = "ok" THEN "sent"
    ELSE "failed"

\* last_update_time after that call: stamped only after a successful edit.
update_status(lut, m, t, edit) ==
    IF StatusResult(lut, m, t, edit) = "sent" THEN (m :> t) @@ lut ELSE lut

\* ------------------------------------------------------- selection key

\* callback_data=f"v_{quality}_{ext}_{info['video_id']}"
callback_data(video_id) == <<"v", "720p", "mp4">> \o video_id

\* A split that keeps the id whole, data.split('_', 3) (not the code's).
split_maxsplit(data) == <<<<data[1]>>, <<data[2]>>, <<data[3]>>, SubSeq(data, 4, Len(data))>>

\* query.data.split('_'): one string per segment.
split(data) == [i \in 1..Len(data) |-> <<data[i]>>]

\* A lookup that never misses (not the code's).
session_always_known(cache, video_id) == TRUE

\* "video_id not in video_info_cache", negated.
session_known(cache, video_id) == video_id \in DOMAIN cache

\* outtmpl: the artifact's path is a function of the video (title, ext).
prepare_filename(video_id) == <<"downloads", "temp">> \o video_id

\* YouTubeDownloader.get_file_size: os.path.getsize, 0 on any error.
get_file_size(fs, path) == IF path \in DOMAIN fs THEN fs[path] ELSE 0

\* A routing that offloads at the threshold too (not the code's).
RouteAtOrAbove(file_size, max_mib, force) == file_size >= max_mib * MiB \/ force

\* SizeCheck: "file_size > MAX_DOWNLOAD_SIZE * 1024 * 1024 or FORCE_GOFILE".
RouteToGofile(file_size, max_mib, force) == file_size > max_mib * MiB \/ force

\* ------------------------------------------------------------- handlers

IdleHandler ==
    [pc |-> "idle", message |-> 0, video_id |-> <<>>, worker |-> "none",
     file_size |-> 0, exc |-> "none", outcome |-> "none",
     cleanups |-> 0, remove_failed |-> FALSE, removals |-> 0,
     term_sent |-> 0, term_throttled |-> 0, term_failed |-> 0]

\* The handler record after a terminal text went through update_status.
Terminal(hr, res) ==
    [hr EXCEPT !.term_sent = @ + (IF res = "sent" THEN 1 ELSE 0),
               !.term_throttled = @ + (IF res = "throttled" THEN 1 ELSE 0),
               !.term_failed = @ + (IF res = "failed" THEN 1 ELSE 0)]

\* A terminal text is sent to the status message and the handler returns.
ReturnWith(h, hr, edit, outcome) ==
    LET res == StatusResult(last_update_time, hr.message, now, edit) IN
    /\ last_update_time' = update_status(last_update_time, hr.message, now, edit)
    /\ hnd' = [hnd EXCEPT ![h] = [Terminal(hr, res) EXCEPT !.pc = "done", !.outcome = outcome]]

\* A progress text is sent to the status message (progress_callback).
progress_callback(m, edit) ==
    last_update_time' = update_status(last_update_time, m, now, edit)

\* The coordinator before any request.
CoordIdle ==
    /\ user_data = <<>>
    /\ video_info_cache = <<>>
    /\ last_update_time = <<>>
    /\ now = 0
    /\ status_msgs = <<>>
    /\ hnd = [h \in Handlers |-> IdleHandler]

\* No upload_file call, no SizeCheck and no format resolution under way.
NoResponse == [http |-> 0, status |-> "", data |-> ""]
UpIdle ==
    [pc |-> "idle", attempt |-> 0, server |-> "None", probes |-> <<>>,
     delays |-> <<>>, outcome |-> "none", result |-> "none", file_open |-> FALSE,
     response |-> NoResponse, first_answer |-> 0]
RtIdle == "none"
NoVariant == [status |-> "none", height |-> 0, ext |-> ""]
FmIdle == [pc |-> "idle", formats |-> {}, key |-> <<>>, resolved |-> NoVariant]

\* No progress reporter: its limiter state as __init__ leaves it, no event
\* handled yet. A percentage is kept as the exact fraction n / d.
NoEvent == [status |-> "none", result |-> "none", bytes |-> 0, total |-> 0, has_pct |-> FALSE]
PgIdle ==
    [kind |-> "none", pc |-> "idle", last_update |-> 0, last_progress |-> [n |-> 0, d |-> 1],
     last_size |-> 0, uploaded |-> 0, total_size |-> 0, sample |-> 0,
     emitted_at |-> 0, emitted_pct |-> [n |-> 0, d |-> 1], ev |-> NoEvent,
     stalled |-> <<>>, inflight |-> {}, sink |-> <<>>,
     yielded |-> 0, read_at |-> 0, wake_at |-> 0]

Init ==
    /\ config \in CoordConfigs
    /\ files = <<>>
    /\ CoordIdle
    /\ up = UpIdle
    /\ rt = RtIdle
    /\ fm = FmIdle
    /\ pg = PgIdle

\* time passes
Tick ==
    /\ now < MaxTime
    /\ now' = now + 1
    /\ UNCHANGED <<config, user_data, video_info_cache, last_update_time, files, status_msgs, hnd>>
    /\ UNCHANGED <<up, rt, fm, pg>>

\* download_command: the status message is sent, the video is resolved, the
\* session is registered and the keyboard is shown through update_status.
download_command(video_id, resolved, edit) ==
    /\ Len(status_msgs) < MaxRequests
    /\ LET m == Len(status_msgs) + 1 IN
       /\ last_update_time' = update_status(last_update_time, m, now, edit)
       /\ IF resolved
          THEN /\ video_info_cache' = (video_id :> [message_id |-> m]) @@ video_info_cache
               /\ status_msgs' = Append(status_msgs, [video_id |-> video_id, keyboard |-> (edit = "ok")])
          ELSE /\ video_info_cache' = video_info_cache
               /\ status_msgs' = Append(status_msgs, [video_id |-> video_id, keyboard |-> FALSE])
    /\ UNCHANGED <<config, user_data, now, files, hnd>>
    /\ UNCHANGED <<up, rt, fm, pg>>

\* button_callback, from the button press to the hand-over of the fetch to
\* the worker pool: split, lookup, "Preparing download...".
button_callback(h, m, edit) ==
    /\ hnd[h].pc = "idle"
    /\ \A g \in 1..(h - 1) : hnd[g].pc # "idle"
    /\ m \in 1..Len(status_msgs)
    /\ status_msgs[m].keyboard
    /\ LET parts == split(callback_data(status_msgs[m].video_id))
           hr == [hnd[h] EXCEPT !.message = m]
       IN  IF Len(parts) # 4
           THEN \* ValueError in the unpacking -> except Exception
                ReturnWith(h, hr, edit, "Rejected")
           ELSE IF ~session_known(video_info_cache, parts[4])
           THEN \* "Session expired"
                ReturnWith(h, [hr EXCEPT !.video_id = parts[4]], edit, "Expired")
           ELSE /\ progress_callback(m, edit)
                /\ hnd' = [hnd EXCEPT ![h] = [hr EXCEPT !.pc = "fetching", !.video_id = parts[4]]]
    /\ UNCHANGED <<config, user_data, video_info_cache, now, files, status_msgs>>
    /\ UNCHANGED <<up, rt, fm, pg>>

\* A progress text relayed while the fetch or the offload runs.
progress_update(h, edit) ==
    /\ hnd[h].pc \in {"fetching", "offloading"}
    /\ progress_callback(hnd[h].message, edit)
    /\ UNCHANGED <<config, user_data, video_info_cache, now, files, status_msgs, hnd>>
    /\ UNCHANGED <<up, rt, fm, pg>>

\* An executor with one worker fewer than asked for (not the code's).
executor_short_of_one(running, max_workers) == running < max_workers - 1

\* ThreadPoolExecutor(max_workers): a submitted job runs on a thread of the
\* pool when fewer than max_workers jobs of that pool are running, else it
\* waits in the pool's queue.
executor_admits(running, max_workers) == running < max_workers

\* The jobs running in the executor of handler h's downloader besides h's own
\* fetch: none, button_callback constructs a YouTubeDownloader, and with it
\* a ThreadPoolExecutor, for every press.
executor_running(h) == 0

\* YouTubeDownloader._download on a worker thread: the artifact is written
\* and (filename, title) returned, or None is returned.
worker_download(h, ok, size) ==
    /\ hnd[h].pc = "fetching"
    /\ executor_admits(executor_running(h), config.MAX_CONCURRENT_DOWNLOADS)
    /\ IF ok
       THEN files' = (prepare_filename(hnd[h].video_id) :> size) @@ files
       ELSE files' = files
    /\ hnd' = [hnd EXCEPT ![h] = [@ EXCEPT !.pc = "fetched", !.worker = IF ok THEN "ok" ELSE "fail"]]
    /\ UNCHANGED <<config, user_data, video_info_cache, last_update_time, now, status_msgs>>
    /\ UNCHANGED <<up, rt, fm, pg>>

\* A download() that returns without awaiting the worker (not the code's).
download_return_early(h, edit) ==
    /\ hnd[h].pc \in {"fetching", "fetched"}
    /\ hnd' = [hnd EXCEPT ![h] = [@ EXCEPT !.pc = "sizecheck"]]
    /\ UNCHANGED <<config, user_data, video_info_cache, last_update_time, now, files, status_msgs>>
    /\ UNCHANGED <<up, rt, fm, pg>>

\* YouTubeDownloader.download after the worker returned: the result and the
\* file are checked; a failure reaches the outer "except Exception".
download_return(h, edit) ==
    /\ hnd[h].pc = "fetched"
    /\ IF hnd[h].worker = "ok" /\ prepare_filename(hnd[h].video_id) \in DOMAIN files
       THEN /\ hnd' = [hnd EXCEPT ![h] = [@ EXCEPT !.pc = "sizecheck"]]
            /\ UNCHANGED last_update_time
       ELSE ReturnWith(h, hnd[h], edit, "Failed")
    /\ UNCHANGED <<config, user_data, video_info_cache, now, files, status_msgs>>
    /\ UNCHANGED <<up, rt, fm, pg>>

\* SizeCheck and the announcement of the chosen route.
size_check(h, edit) ==
    /\ hnd[h].pc = "sizecheck"
    /\ LET file_size == get_file_size(files, prepare_filename(hnd[h].video_id)) IN
       hnd' = [hnd EXCEPT ![h] = [@ EXCEPT
                  !.file_size = file_size,
                  !.pc = IF RouteToGofile(file_size, config.MAX_DOWNLOAD_SIZE, config.FORCE_GOFILE)
                         THEN "offloading" ELSE "delivering"]]
    /\ progress_callback(hnd[h].message, edit)
    /\ UNCHANGED <<config, user_data, video_info_cache, now, files, status_msgs>>
    /\ UNCHANGED <<up, rt, fm, pg>>

\* Offloading: upload_file returned (completion summary) or raised
\* ("Upload Failed" summary, then the exception is raised again).
offload_done(h, ok, edit) ==
    /\ hnd[h].pc = "offloading"
    /\ ok => prepare_filename(hnd[h].video_id) \in DOMAIN files
    /\ LET res == StatusResult(last_update_time, hnd[h].message, now, edit) IN
       /\ last_update_time' = update_status(last_update_time, hnd[h].message, now, edit)
       /\ hnd' = [hnd EXCEPT ![h] = [Terminal(@, res) EXCEPT
                     !.pc = "cleanup", !.exc = IF ok THEN "none" ELSE "Exception"]]
    /\ UNCHANGED <<config, user_data, video_info_cache, now, files, status_msgs>>
    /\ UNCHANGED <<up, rt, fm, pg>>

\* DeliveringInline: open(filename), send_video / send_audio, summary.
inline_done(h, sent, edit) ==
    /\ hnd[h].pc = "delivering"
    /\ IF sent = "ok" /\ prepare_filename(hnd[h].video_id) \in DOMAIN files
       THEN LET res == StatusResult(last_update_time, hnd[h].message, now, edit) IN
            /\ last_update_time' = update_status(last_update_time, hnd[h].message, now, edit)
            /\ hnd' = [hnd EXCEPT ![h] = [Terminal(@, res) EXCEPT !.pc = "cleanup"]]
       ELSE /\ hnd' = [hnd EXCEPT ![h] = [@ EXCEPT !.pc = "cleanup",
                          !.exc = IF sent = "TimedOut" /\ prepare_filename(hnd[h].video_id) \in DOMAIN files
                                  THEN "TimedOut" ELSE "Exception"]]
            /\ UNCHANGED last_update_time
    /\ UNCHANGED <<config, user_data, video_info_cache, now, files, status_msgs>>
    /\ UNCHANGED <<up, rt, fm, pg>>

\* A cleanup that leaves the file in place (not the code's).
cleanup_keeps_file(fs, path, removed) == fs

\* "if os.path.exists(file_path): os.remove(file_path)"; os.remove may raise.
os_remove(fs, path, removed) == IF path \in DOMAIN fs /\ removed THEN Without(fs, path) ELSE fs

\* A finally block that lets the error of os.remove out (not the code's).
cleanup_raises(h, removed) ==
    /\ hnd[h].pc = "cleanup"
    /\ LET path == prepare_filename(hnd[h].video_id) IN
       /\ files' = os_remove(files, path, removed)
       /\ hnd' = [hnd EXCEPT ![h] = [@ EXCEPT !.pc = "finish", !.cleanups = @ + 1,
                     !.remove_failed = (path \in DOMAIN files /\ ~removed),
                     !.exc = IF path \in DOMAIN files /\ ~removed THEN "OSError" ELSE @]]
    /\ UNCHANGED <<config, user_data, video_info_cache, last_update_time, now, status_msgs>>
    /\ UNCHANGED <<up, rt, fm, pg>>

\* The finally block of the fetch-and-deliver try statement.
cleanup(h, removed) ==
    /\ hnd[h].pc = "cleanup"
    /\ LET path == prepare_filename(hnd[h].video_id) IN
       /\ files' = os_remove(files, path, removed)
       /\ hnd' = [hnd EXCEPT ![h] = [@ EXCEPT !.pc = "finish", !.cleanups = @ + 1,
                     !.remove_failed = (path \in DOMAIN files /\ ~removed)]]
    /\ UNCHANGED <<config, user_data, video_info_cache, last_update_time, now, status_msgs>>
    /\ UNCHANGED <<up, rt, fm, pg>>

\* After the finally block: "del video_info_cache[video_id]" when no
\* exception is pending, else the outer except clauses.
finish(h, edit) ==
    /\ hnd[h].pc = "finish"
    /\ IF hnd[h].exc = "none"
       THEN IF hnd[h].video_id \in DOMAIN video_info_cache
            THEN /\ video_info_cache' = Without(video_info_cache, hnd[h].video_id)
                 /\ hnd' = [hnd EXCEPT ![h] = [@ EXCEPT !.pc = "done", !.outcome = "Complete", !.removals = @ + 1]]
                 /\ UNCHANGED last_update_time
            ELSE \* KeyError -> except Exception
                 /\ ReturnWith(h, [hnd[h] EXCEPT !.removals = @ + 1], edit, "Failed")
                 /\ UNCHANGED video_info_cache
       ELSE /\ ReturnWith(h, hnd[h], edit, "Failed")
            /\ UNCHANGED video_info_cache
    /\ UNCHANGED <<config, user_data, now, files, status_msgs>>
    /\ UNCHANGED <<up, rt, fm, pg>>

Next ==
    \/ Tick
    \/ \E v \in VideoIds, r \in BOOLEAN, e \in EditOutcomes : download_command(v, r, e)
    \/ \E h \in Handlers, m \in 1..MaxRequests, e \in EditOutcomes : button_callback(h, m, e)
    \/ \E h \in Handlers, e \in EditOutcomes : progress_update(h, e)
    \/ \E h \in Handlers, ok \in BOOLEAN, s \in ArtifactSizes : worker_download(h, ok, s)
    \/ \E h \in Handlers, e \in EditOutcomes : download_return(h, e)
    \/ \E h \in Handlers, e \in EditOutcomes : size_check(h, e)
    \/ \E h \in Handlers, ok \in BOOLEAN, e \in EditOutcomes : offload_done(h, ok, e)
    \/ \E h \in Handlers, s \in {"ok", "TimedOut", "error"}, e \in EditOutcomes : inline_done(h, s, e)
    \/ \E h \in Handlers, r \in BOOLEAN : cleanup(h, r)
    \/ \E h \in Handlers, e \in EditOutcomes : finish(h, e)

Spec == Init /\ [][Next]_vars

\* ------------------------------------------------- claims on the coordinator

\* The handler has returned from a session that reached Complete or Failed.
Ended(h) == hnd[h].pc = "done" /\ hnd[h].outcome \in {"Complete", "Failed"}

\* Handler g holds an artifact of its own at the path: written by its worker,
\* its finally block not yet run.
HoldsArtifact(g, path) ==
    /\ prepare_filename(hnd[g].video_id) = path
    /\ hnd[g].worker = "ok"
    /\ hnd[g].pc \in {"fetched", "sizecheck", "offloading", "delivering", "cleanup"}

C2_CleanupExactlyOnce ==
    \A h \in Handlers : Ended(h) => hnd[h].cleanups = 1

\* C3: when the handler returns from a session that reached Complete or
\* Failed, the registry holds no entry for its id and the entry was removed
\* exactly once.
C3_RemovedExactlyOnce ==
    [][\A h \in Handlers :
          hnd[h].pc # "done" /\ hnd'[h].pc = "done" /\ hnd'[h].outcome \in {"Complete", "Failed"} =>
              /\ hnd'[h].video_id \notin DOMAIN video_info_cache'
              /\ hnd'[h].removals = 1]_vars

\* C4: a session that reached Complete or Failed had exactly one terminal
\* text handed to the sink, and none dropped by the throttle of update_status.
C4_OneTerminalMessage ==
    \A h \in Handlers :
        Ended(h) => hnd[h].term_throttled = 0 /\ hnd[h].term_sent + hnd[h].term_failed = 1

\* The step in which handler h takes up a button press.
Pressed(h) == hnd[h].pc = "idle" /\ hnd'[h].pc # "idle"

\* The selection key of the button handler h took up.
PressedKey(h) == callback_data(status_msgs[hnd'[h].message].video_id)

\* The press started nothing: the registry and the temp directory are as
\* before, no fetch was handed to a worker, the handler has returned.
NothingStarted(h) ==
    /\ video_info_cache' = video_info_cache
    /\ files' = files
    /\ hnd'[h].pc = "done"
    /\ hnd'[h].worker = "none"

\* Some handler completed the session of this id (and so removed its entry).
WasRemoved(video_id) ==
    \E g \in Handlers : hnd[g].outcome = "Complete" /\ hnd[g].video_id = video_id

\* C7: a selection for an id whose session was removed from the registry
\* (and not registered again since) ends Expired and starts nothing.
C7_ExpiredAfterRemoval ==
    [][\A h \in Handlers :
          /\ Pressed(h)
          /\ Len(PressedKey(h)) = 4
          /\ WasRemoved(<<PressedKey(h)[4]>>)
          /\ <<PressedKey(h)[4]>> \notin DOMAIN video_info_cache
          => hnd'[h].outcome = "Expired" /\ NothingStarted(h)]_vars

\* C7 witness: a handler returned Expired for an id another handler removed.
C7_Witness ==
    \E h \in Handlers :
        /\ hnd[h].outcome = "Expired"
        /\ WasRemoved(hnd[h].video_id)
        /\ hnd[h].video_id \notin DOMAIN video_info_cache

\* C8: a key that does not have exactly four '_'-separated components, or
\* whose session id is not in the registry, is rejected and starts nothing.
C8_RejectedBeforeMutation ==
    [][\A h \in Handlers :
          Pressed(h) /\ (Len(PressedKey(h)) # 4 \/ <<PressedKey(h)[4]>> \notin DOMAIN video_info_cache)
          => hnd'[h].outcome \in {"Rejected", "Expired"} /\ NothingStarted(h)]_vars

\* C8 witness: a key of five components was rejected while its session is
\* in the registry and an artifact of another session is on disk.
C8_Witness ==
    \E h \in Handlers :
        /\ hnd[h].outcome = "Rejected"
        /\ Len(callback_data(status_msgs[hnd[h].message].video_id)) = 5
        /\ status_msgs[hnd[h].message].video_id \in DOMAIN video_info_cache
        /\ files # <<>>

\* C11: once a handler has returned Failed for the session of a status
\* message (its download or offload failed, or its delivery timed out), no
\* later press of a button of that message enters Fetching again.
C11_NoReentryAfterFailed ==
    [][\A h \in Handlers :
          /\ Pressed(h)
          /\ \E g \in Handlers \ {h} :
                /\ hnd[g].outcome = "Failed"
                /\ hnd[g].message = hnd'[h].message
          => hnd'[h].pc # "fetching"]_vars

\* The handlers whose fetch is on a worker thread.
ExecutingFetches == {h \in Handlers : hnd[h].pc = "fetching"}

C18_NonEmptyArtifact ==
    \A h \in Handlers :
        hnd[h].pc = "sizecheck" =>
            /\ prepare_filename(hnd[h].video_id) \in DOMAIN files
            /\ files[prepare_filename(hnd[h].video_id)] > 0

\* Handler h is between the registry lookup and its return.
InFlight(h) ==
    hnd[h].pc \in {"fetching", "fetched", "sizecheck", "offloading", "delivering", "cleanup", "finish"}

C24_UploadAfterDownload ==
    \A h \in Handlers :
        hnd[h].pc \in {"sizecheck", "offloading", "delivering"} => hnd[h].worker = "ok"

\* C24 witness: a handler is offloading the artifact its worker returned.
C24_Witness ==
    \E h \in Handlers :
        /\ hnd[h].pc = "offloading" /\ hnd[h].worker = "ok"
        /\ prepare_filename(hnd[h].video_id) \in DOMAIN files

\* Handler h takes up the first selection of a session that has been in
\* AwaitingSelection since the keyboard was shown on its status message.
FirstSelection(h) ==
    LET m == hnd'[h].message
        id == status_msgs[m].video_id
    IN  /\ Pressed(h)
        /\ \A g \in Handlers : hnd[g].message # m
        /\ id \in DOMAIN video_info_cache /\ video_info_cache[id].message_id = m
        /\ m \in DOMAIN last_update_time

\* C25: for a TTL shorter than the time the clock runs, a first selection
\* that arrives MaxTime seconds after the keyboard was shown ends Expired
\* and starts no fetch.
C25_ExpiredAfterTTL ==
    [][\A h \in Handlers :
          FirstSelection(h) /\ now - last_update_time[hnd'[h].message] >= MaxTime
          => hnd'[h].outcome = "Expired" /\ hnd'[h].pc # "fetching"]_vars

\* Another handler completed the session of handler h's id.
OtherCompleted(h) ==
    \E g \in Handlers \ {h} :
        hnd[g].video_id = hnd[h].video_id /\ hnd[g].outcome = "Complete"

\* C26: a handler whose os.remove failed ends as its delivery decided:
\* Complete when the delivery succeeded, Failed with the error of the
\* delivery (never the error of the deletion) when it did not.
C26_DeletionFailureNotFatal ==
    \A h \in Handlers :
        Ended(h) /\ hnd[h].remove_failed =>
            /\ hnd[h].exc \in {"none", "TimedOut", "Exception"}
            /\ hnd[h].exc # "none" => hnd[h].outcome = "Failed"
            /\ hnd[h].exc = "none" /\ ~OtherCompleted(h) => hnd[h].outcome = "Complete"

\* C26 witness: the delivery succeeded, os.remove failed, the handler ended
\* Complete and the registry entry is gone.
C26_Witness ==
    \E h \in Handlers :
        /\ Ended(h) /\ hnd[h].remove_failed /\ hnd[h].outcome = "Complete"
        /\ hnd[h].video_id \notin DOMAIN video_info_cache

\* ======================================================= GoFileUploader

\* A retry schedule of four attempts (not the code's).
retry_delays_of_four == <<1, 2, 4, 8>>

\* self._default_servers, self._retry_delays
default_servers == <<"store1", "store2", "store3", "store4", "store5">>
retry_delays == <<1, 2, 4>>

\* How the probe of one server can end: an HTTP status, a connection error
\* or the 10 s timeout of the probe.
ProbeOutcomes == {"200", "404", "500", "error", "timeout"}

\* How one attempt can end: a 200 response with status "ok" and data,
\* asyncio.TimeoutError, another HTTP status, a status flag other than "ok",
\* an empty data payload, a connection error, or an exception of
\* progress_callback ("Connected to server", UploadProgress.update).
AttemptOutcomes == {"ok", "timeout", "http_status", "not_ok", "no_data", "error", "sink_error"}

\* How a call of progress_callback can end.
SinkOutcomes == {"ok", "raises"}

\* The artifact handed to upload_file: missing, empty, or 50 MiB.
UploadPath == prepare_filename(<<"abc">>)
UploadFiles == { <<>>, (UploadPath :> 0), (UploadPath :> 50 * MiB) }

\* test_server: the server's name on status 200 or 404, None on any other
\* status and on any exception.
test_server(server, probe) == IF probe \in {"200", "404"} THEN server ELSE "None"

\* A selection without the default fallback (not the code's).
get_server_no_default(probes) ==
    LET available == {i \in DOMAIN default_servers : test_server(default_servers[i], probes[i]) # "None"}
    IN  IF available # {}
        THEN default_servers[CHOOSE i \in available : \A j \in available : i <= j]
        ELSE "None"

\* _get_server: the first server of the list whose probe returned its name,
\* else the first server of the list.
get_server(probes) ==
    LET results == [i \in DOMAIN default_servers |-> test_server(default_servers[i], probes[i])]
        available == {i \in DOMAIN default_servers : results[i] # "None"}
    IN  IF available # {}
        THEN default_servers[CHOOSE i \in available : \A j \in available : i <= j]
        ELSE default_servers[1]

\* upload_file up to the retry loop: the artifact must exist.
upload_file(exists) ==
    /\ up.pc = "start"
    /\ exists = (UploadPath \in DOMAIN files)
    /\ up' = IF exists THEN [up EXCEPT !.pc = "select"]
             ELSE [up EXCEPT !.pc = "raised", !.result = "FileNotFoundError"]
    /\ UNCHANGED <<config, user_data, video_info_cache, last_update_time, now, files, status_msgs, hnd, rt, fm, pg>>

\* One attempt starts: "server = await self._get_server()", then a new
\* file_sender and a new FormData; the generator of the attempt before is
\* no longer referenced and is finalized.
upload_select(probes) ==
    /\ up.pc = "select"
    /\ up' = IF up.attempt >= Len(retry_delays)
             THEN \* the for loop is exhausted: the function ends without a return
                  [up EXCEPT !.pc = "returned", !.result = "None"]
             ELSE [up EXCEPT !.pc = "post", !.probes = probes, !.server = get_server(probes),
                             !.file_open = FALSE]
    /\ UNCHANGED <<config, user_data, video_info_cache, last_update_time, now, files, status_msgs, hnd, rt, fm, pg>>

\* file_sender reads the artifact inside "with open(file_path, 'rb') as f"
\* and is driven by the POST. When the body was sent to its end, or the
\* exception came out of file_sender itself, the with block was left and
\* the file is closed. When the POST times out or loses its connection, it
\* may do so before file_sender was started, or while file_sender is
\* suspended at "yield chunk" with the file open; nothing in upload_file
\* closes it then.
SuspendedAfter(outcome) == IF outcome \in {"timeout", "error"} THEN BOOLEAN ELSE {FALSE}

\* A test for the last attempt that is off by one (not the code's).
last_attempt_off_by_one(attempt) == attempt = Len(retry_delays)

\* "attempt == len(self._retry_delays) - 1" of the two except clauses.
last_attempt(attempt) == attempt = Len(retry_delays) - 1

\* The attempt ends: return, or one of the two except clauses.
upload_attempt(outcome) ==
    /\ up.pc = "post"
    /\ \E suspended \in SuspendedAfter(outcome) :
       LET last == last_attempt(up.attempt)
           seen == [up EXCEPT !.outcome = outcome, !.probes = <<>>, !.file_open = suspended]
       IN  IF outcome = "ok"
           THEN up' = [seen EXCEPT !.pc = "returned", !.result = "ok"]
           ELSE IF outcome = "timeout"
           THEN \* except asyncio.TimeoutError: raise on the last attempt, else continue
                up' = IF last THEN [seen EXCEPT !.pc = "raised", !.result = "Upload timed out"]
                      ELSE [seen EXCEPT !.pc = "select", !.attempt = @ + 1]
           ELSE \* except Exception: raise on the last attempt, else the retry
                \* notice goes to progress_callback, then sleep(delay)
                IF last
                THEN up' = [seen EXCEPT !.pc = "raised", !.result = "Upload failed after attempts"]
                ELSE \E sink \in SinkOutcomes :
                        up' = IF sink = "raises"
                              THEN [seen EXCEPT !.pc = "raised", !.result = "sink error"]
                              ELSE [seen EXCEPT !.pc = "sleep", !.delays = Append(@, retry_delays[up.attempt + 1])]
    /\ UNCHANGED <<config, user_data, video_info_cache, last_update_time, now, files, status_msgs, hnd, rt, fm, pg>>

\* asyncio.sleep(delay) is over: the next attempt.
upload_backoff ==
    /\ up.pc = "sleep"
    /\ up' = [up EXCEPT !.pc = "select", !.attempt = @ + 1]
    /\ UNCHANGED <<config, user_data, video_info_cache, last_update_time, now, files, status_msgs, hnd, rt, fm, pg>>

InitUpload ==
    /\ config \in CoordConfigs
    /\ files \in UploadFiles
    /\ CoordIdle
    /\ up = [UpIdle EXCEPT !.pc = "start"]
    /\ rt = RtIdle
    /\ fm = FmIdle
    /\ pg = PgIdle

NextUpload ==
    \/ \E x \in BOOLEAN : upload_file(x)
    \/ \E probes \in [DOMAIN default_servers -> ProbeOutcomes] : upload_select(probes)
    \/ \E o \in AttemptOutcomes : upload_attempt(o)
    \/ upload_backoff

SpecUpload == InitUpload /\ [][NextUpload]_vars

\* C5: with failures on attempts 1 and 2 (of any kind, a timeout included)
\* and success on attempt 3, upload_file returns the result after exactly two
\* backoff delays, 1 s then 2 s.
C5_TwoBackoffDelays ==
    up.pc = "returned" /\ up.attempt = 2 => up.delays = <<1, 2>>

FairProbeOutcomes == {"200", "500", "timeout"}

NextUploadFair ==
    \/ \E x \in BOOLEAN : upload_file(x)
    \/ \E probes \in [DOMAIN default_servers -> FairProbeOutcomes] : upload_select(probes)
    \/ \E o \in AttemptOutcomes : upload_attempt(o)
    \/ upload_backoff

SpecUploadFair == InitUpload /\ [][NextUploadFair]_vars /\ WF_vars(NextUploadFair)

\* C21: upload_file makes at most 3 attempts and awaits at most 2 delays,
\* every attempt starts with a server selection of its own, and upload_file
\* ends with a result or a raised failure.
C21_BoundedRetries ==
    /\ [](up.attempt <= 3 - 1 /\ Len(up.delays) <= 3 - 1)
    /\ [][up'.pc = "post" /\ up.pc # "post" =>
             up.pc = "select" /\ up'.server = get_server(up'.probes)]_vars
    /\ <>(up.pc \in {"returned", "raised"})

\* C21 witness: the third attempt succeeded after two delays.
C21_Witness ==
    up.pc = "returned" /\ up.attempt = 2 /\ Len(up.delays) = 2

\* ---- the response of the store

\* The responses a POST can get: the HTTP status, result.get("status") and
\* result.get("data", {}) of the JSON body.
Responses ==
    [http : {200, 201, 400, 500}, status : {"ok", "error", "missing"},
     data : {"present", "empty", "missing"}]

\* A classification that does not look at the data payload (not the code's).
response_outcome_without_data(r) ==
    IF r.http # 200 THEN "http_status"
    ELSE IF r.status # "ok" THEN "not_ok"
    ELSE "ok"

\* upload_file on a response: 'response.status != 200', then
\* 'result.get("status") != "ok"', then 'not data' raise; else the result
\* is returned.
response_outcome(r) ==
    IF r.http # 200 THEN "http_status"
    ELSE IF r.status # "ok" THEN "not_ok"
    ELSE IF r.data # "present" THEN "no_data"
    ELSE "ok"

\* The POST of the attempt is answered.
receive_response(r) ==
    /\ up.pc = "post" /\ up.response = NoResponse
    /\ up' = [up EXCEPT !.response = r]
    /\ UNCHANGED <<config, user_data, video_info_cache, last_update_time, now, files, status_msgs, hnd, rt, fm, pg>>

\* upload_file goes on from the response it got.
handle_response ==
    /\ up.response # NoResponse
    /\ upload_attempt(response_outcome(up.response))

\* An attempt (first, second or third) whose POST is answered.
InitResponse ==
    /\ config \in CoordConfigs
    /\ files = (UploadPath :> 50 * MiB)
    /\ CoordIdle
    /\ \E a \in 0..(Len(retry_delays) - 1), s \in {default_servers[1], default_servers[2]} :
          up = [UpIdle EXCEPT !.pc = "post", !.attempt = a, !.server = s]
    /\ rt = RtIdle
    /\ fm = FmIdle
    /\ pg = PgIdle

NextResponse ==
    \/ \E r \in Responses : receive_response(r)
    \/ handle_response

SpecResponse == InitResponse /\ [][NextResponse]_vars

\* The response is a success: status 200, flag "ok", data present.
GoodResponse(r) == r.http = 200 /\ r.status = "ok" /\ r.data = "present"

\* C27: upload_file returns a result only from a response with status 200,
\* flag "ok" and a data payload; on any other response the attempt fails.
C27_SuccessOnlyOnGoodResponse ==
    up.outcome # "none" =>
        IF GoodResponse(up.response)
        THEN up.pc = "returned" /\ up.result = "ok"
        ELSE up.pc \in {"sleep", "raised"} /\ up.result # "ok"

\* C27 witness: a 200 response with flag "ok" and no data failed the attempt.
C27_Witness ==
    /\ up.response.http = 200 /\ up.response.status = "ok" /\ up.response.data = "empty"
    /\ up.outcome = "no_data" /\ up.pc = "sleep"

\* C39: upload_file ends by returning the result of an attempt that
\* succeeded or by raising: it never ends normally without a result, and
\* never runs past its attempts.
C39_ReturnsResultOrRaises ==
    /\ up.pc = "returned" => up.result = "ok" /\ up.outcome = "ok"
    /\ up.pc = "raised" => up.result \notin {"ok", "None", "none"}
    /\ up.attempt < Len(retry_delays)

\* The third attempt returned a result after a timeout and another failure.
C39_Witness ==
    up.pc = "returned" /\ up.attempt = Len(retry_delays) - 1 /\ Len(up.delays) = 1

\* C22: no file handle opened by an attempt is open when the next attempt
\* starts or when upload_file is left.
C22_HandlesReleased ==
    up.pc \in {"select", "sleep", "returned", "raised"} => ~up.file_open

\* C17: an exception of progress_callback is discarded: it never ends an
\* upload attempt and upload_file never raises because of it.
C17_SinkErrorsDiscarded ==
    up.outcome # "sink_error" /\ up.result # "sink error"

\* The artifact given to upload_file is missing or empty.
PreconditionError == UploadPath \notin DOMAIN files \/ files[UploadPath] = 0

\* C19: with a missing or an empty artifact upload_file raises without
\* selecting a server, starting an attempt or awaiting a delay.
C19_FailFast ==
    PreconditionError =>
        /\ up.pc \in {"start", "raised"}
        /\ up.server = "None" /\ up.outcome = "none" /\ up.delays = <<>>

\* C20: an attempt that times out is handled like any other failed attempt:
\* before the last attempt its backoff delay is awaited, on the last attempt
\* the failure raised is the one that wraps the attempt's error.
C20_TimeoutLikeOtherFailures ==
    [][up.pc = "post" /\ up'.outcome = "timeout" =>
          IF up.attempt = Len(retry_delays) - 1
          THEN up'.pc = "raised" /\ up'.result = "Upload failed after attempts"
          ELSE up'.pc = "sleep" /\ up'.delays = Append(up.delays, retry_delays[up.attempt + 1])]_vars

\* ============================================================== SizeCheck

\* The artifact whose size is checked, and the sizes and configurations the
\* check is run on.
RoutePath == prepare_filename(<<"abc">>)
RouteSizes == {0, 1, MiB - 1, MiB, MiB + 1, 10 * MiB, 20 * MiB - 1, 20 * MiB, 20 * MiB + 1, 50 * MiB}
RouteConfigs == [MAX_DOWNLOAD_SIZE : {0, 1, 20}, FORCE_GOFILE : BOOLEAN, MAX_CONCURRENT_DOWNLOADS : {1}]

\* "file_size = downloader.get_file_size(filename)" and the branch on it.
route_by_size ==
    /\ rt = "none"
    /\ rt' = IF RouteToGofile(get_file_size(files, RoutePath), config.MAX_DOWNLOAD_SIZE, config.FORCE_GOFILE)
             THEN "Offloading" ELSE "DeliveringInline"
    /\ UNCHANGED <<config, user_data, video_info_cache, last_update_time, now, files, status_msgs, hnd, up, fm, pg>>

InitRoute ==
    /\ config \in RouteConfigs
    /\ files \in {(RoutePath :> s) : s \in RouteSizes}
    /\ CoordIdle
    /\ up = UpIdle
    /\ rt = RtIdle
    /\ fm = FmIdle
    /\ pg = PgIdle

NextRoute == route_by_size

SpecRoute == InitRoute /\ [][NextRoute]_vars

\* C9: the route is Offloading exactly when the artifact has more bytes
\* than MAX_DOWNLOAD_SIZE MiB or the force flag is set, and DeliveringInline
\* otherwise.
C9_RouteBySize ==
    rt # "none" =>
        /\ rt \in {"Offloading", "DeliveringInline"}
        /\ rt = "Offloading" <=> (files[RoutePath] >= config.MAX_DOWNLOAD_SIZE * MiB + 1 \/ config.FORCE_GOFILE)

\* C9 witness: 50 MiB against 20 MiB with the flag off went to Offloading.
C9_Witness ==
    /\ rt = "Offloading"
    /\ files[RoutePath] = 50 * MiB
    /\ config.MAX_DOWNLOAD_SIZE = 20 /\ ~config.FORCE_GOFILE

\* ======================================================= format selection

\* The formats yt-dlp can report for one video: video-only streams, streams
\* with video and audio ("muxed"), audio-only streams.
Heights == {360, 720}
RemoteFormats ==
    [kind : {"video", "muxed"}, height : Heights, ext : {"mp4", "webm"}]
        \cup [kind : {"audio"}, height : {0}, ext : {"m4a", "webm"}]

\* quality = f"{height}p" and its inverse in download(), format_quality[:-1].
quality_label(height) == <<height, "p">>
strip_last(label) == SubSeq(label, 1, Len(label) - 1)

\* config.SUPPORTED_VIDEO_QUALITIES
SUPPORTED_VIDEO_QUALITIES ==
    {quality_label(h) : h \in {144, 240, 360, 480, 720, 1080, 1440, 2160}}

\* _parse_formats: the (quality, container) pairs of the catalog, one for
\* every format with a height, a video codec, a supported quality and a
\* container among mp4, webm, mkv.
parse_formats(formats) ==
    {<<quality_label(f.height), f.ext>> :
        f \in {g \in formats : /\ g.kind # "audio"
                               /\ g.height # 0
                               /\ quality_label(g.height) \in SUPPORTED_VIDEO_QUALITIES
                               /\ g.ext \in {"mp4", "webm", "mkv"}}}

\* download(): the format string for a video selection,
\*   bestvideo[height=Q][ext=E]+bestaudio[ext=E]/best[height<=Q][ext=E]
\* with merge_output_format = E.
format_str(format_quality, format_ext) ==
    [bestvideo |-> [height_eq |-> strip_last(format_quality)[1], ext |-> format_ext],
     bestaudio |-> [ext |-> format_ext],
     best |-> [height_le |-> strip_last(format_quality)[1], ext |-> format_ext],
     merge_output_format |-> format_ext]

\* What yt-dlp downloads for that format string: "A+B" needs a video-only
\* stream for A and an audio-only stream for B and merges them; "/" falls
\* back to the next alternative when the first selects nothing; "best" is
\* the muxed stream of the highest resolution (format_sort starts with res).
select_format(formats, fs) ==
    LET videos == {f \in formats : f.kind = "video" /\ f.height = fs.bestvideo.height_eq /\ f.ext = fs.bestvideo.ext}
        audios == {f \in formats : f.kind = "audio" /\ f.ext = fs.bestaudio.ext}
        muxed == {f \in formats : f.kind = "muxed" /\ f.height <= fs.best.height_le /\ f.ext = fs.best.ext}
    IN  IF videos # {} /\ audios # {}
        THEN [status |-> "ok", height |-> fs.bestvideo.height_eq, ext |-> fs.merge_output_format]
        ELSE IF muxed # {}
        THEN LET m == CHOOSE f \in muxed : \A g \in muxed : g.height <= f.height
             IN  [status |-> "ok", height |-> m.height, ext |-> m.ext]
        ELSE [status |-> "unavailable", height |-> 0, ext |-> ""]

\* A button of the keyboard is pressed: v_{quality}_{ext}_{id}, split.
select_variant(quality, ext) ==
    /\ fm.pc = "offered"
    /\ <<quality, ext>> \in parse_formats(fm.formats)
    /\ fm' = [fm EXCEPT !.pc = "selected", !.key = <<"v", quality, ext>>]
    /\ UNCHANGED <<config, user_data, video_info_cache, last_update_time, now, files, status_msgs, hnd, up, rt, pg>>

\* The worker resolves the format string of the selection.
resolve_format ==
    /\ fm.pc = "selected"
    /\ fm' = [fm EXCEPT !.pc = "resolved",
                        !.resolved = select_format(fm.formats, format_str(fm.key[2], fm.key[3]))]
    /\ UNCHANGED <<config, user_data, video_info_cache, last_update_time, now, files, status_msgs, hnd, up, rt, pg>>

InitFormat ==
    /\ config \in CoordConfigs
    /\ files = <<>>
    /\ CoordIdle
    /\ up = UpIdle
    /\ rt = RtIdle
    /\ pg = PgIdle
    /\ fm \in {[FmIdle EXCEPT !.pc = "offered", !.formats = fs] : fs \in SUBSET RemoteFormats}

NextFormat ==
    \/ \E h \in Heights, e \in {"mp4", "webm"} : select_variant(quality_label(h), e)
    \/ resolve_format

SpecFormat == InitFormat /\ [][NextFormat]_vars

\* C10: whenever the fetch of a selected (quality, container) of the catalog
\* resolves to a variant, it is the variant of that quality and container.
C10_ExactVariant ==
    fm.pc = "resolved" /\ fm.resolved.status = "ok" =>
        /\ quality_label(fm.resolved.height) = fm.key[2]
        /\ fm.resolved.ext = fm.key[3]

\* ====================================================== progress reporters

\* Byte counts of progress samples are in whole MiB (1024 * 1024 bytes).
MaxBytes == 5           \* the largest byte count of a download sample
MaxProgressTime == 4    \* seconds the clock runs while a reporter is used

\* time.time() when the reporter is constructed: any value of the epoch
\* clock, which is far above update_interval.
ProgressEpoch == 100

\* DownloadProgress: update_interval, min_progress_change, "size_change >= 2"
update_interval == 2
min_progress_change == 2
min_size_change == 2
\* UploadProgress: update_interval, min_progress_change
upload_update_interval == 2
upload_min_progress_change == 2

\* total_bytes and total_bytes_estimate of a sample (0: absent or zero), the
\* size of the artifact given to UploadProgress, the chunks read from it.
SampleTotals == {0, 10, 200}
UploadTotals == {0, 4, 60}
ChunkSizes == {1, 2}

\* (bytes / total) * 100
Percent(bytes, total) == [n |-> bytes * 100, d |-> total]

abs(x) == IF x < 0 THEN -x ELSE x

\* abs(p - q) >= k, p <= q
PercentDiffAtLeast(p, q, k) == abs(p.n * q.d - q.n * p.d) >= k * p.d * q.d
PercentLeq(p, q) == p.n * q.d <= q.n * p.d

\* d.get('total_bytes') or d.get('total_bytes_estimate', 0)
total_of(total_bytes, total_bytes_estimate) ==
    IF total_bytes # 0 THEN total_bytes ELSE total_bytes_estimate

\* A test that takes the percentage branch for every total (not the code's).
total_always_known(total) == TRUE

\* "if total:"
total_known(total) == total # 0

Event(status, result, bytes, total, has_pct) ==
    [status |-> status, result |-> result, bytes |-> bytes, total |-> total, has_pct |-> has_pct]

\* The reporter after a status text was handed to the callback.
Emitted(r, status, bytes, total, has_pct) ==
    [r EXCEPT !.last_update = now,
              !.emitted_at = IF status = "finished" THEN @ ELSE now,
              !.emitted_pct = IF has_pct THEN Percent(bytes, total) ELSE @,
              !.ev = Event(status, "emitted", bytes, total, has_pct)]

\* DownloadProgress.progress_hook for a 'downloading' sample.
progress_hook_downloading(downloaded, total_bytes, total_bytes_estimate) ==
    /\ pg.kind = "download" /\ pg.pc = "running"
    /\ downloaded > pg.sample
    /\ LET total == total_of(total_bytes, total_bytes_estimate)
           progress == Percent(downloaded, total)
           seen == [pg EXCEPT !.sample = downloaded]
           suppressed == Event("downloading", "suppressed", downloaded, total, FALSE)
       IN  /\ total = 0 \/ downloaded <= total
           /\ pg' = IF now - pg.last_update < update_interval
                    THEN [seen EXCEPT !.ev = suppressed]
                    ELSE IF total_known(total)
                    THEN IF \/ PercentDiffAtLeast(progress, pg.last_progress, min_progress_change)
                            \/ abs(downloaded - pg.last_size) >= min_size_change
                         THEN Emitted([seen EXCEPT !.last_progress = progress, !.last_size = downloaded],
                                      "downloading", downloaded, total, TRUE)
                         ELSE \* no status text was built: last_update is set, then
                              \* the unbound name raises and the except clause drops it
                              [seen EXCEPT !.last_update = now, !.ev = suppressed]
                    ELSE IF downloaded - pg.last_size >= min_size_change
                         THEN Emitted([seen EXCEPT !.last_size = downloaded],
                                      "downloading", downloaded, total, FALSE)
                         ELSE [seen EXCEPT !.ev = suppressed]
    /\ UNCHANGED <<config, user_data, video_info_cache, last_update_time, now, files, status_msgs, hnd, up, rt, fm>>

\* DownloadProgress.progress_hook for the 'finished' event of the download.
progress_hook_finished ==
    /\ pg.kind = "download" /\ pg.pc = "running"
    /\ pg' = IF now - pg.last_update < update_interval
             THEN [pg EXCEPT !.pc = "finished", !.ev = Event("finished", "suppressed", pg.sample, 0, FALSE)]
             ELSE [Emitted(pg, "finished", pg.sample, 0, FALSE) EXCEPT !.pc = "finished"]
    /\ UNCHANGED <<config, user_data, video_info_cache, last_update_time, now, files, status_msgs, hnd, up, rt, fm>>

\* UploadProgress.update for a chunk file_sender read from the artifact.
UploadProgress_update(chunk_size) ==
    /\ pg.kind = "upload" /\ pg.pc = "running"
    /\ pg.uploaded + chunk_size <= pg.total_size
    /\ LET uploaded == pg.uploaded + chunk_size
           progress == Percent(uploaded, pg.total_size)
           seen == [pg EXCEPT !.uploaded = uploaded, !.sample = uploaded]
           suppressed == Event("uploading", "suppressed", uploaded, pg.total_size, FALSE)
       IN  pg' = IF now - pg.last_update < upload_update_interval
                 THEN [seen EXCEPT !.ev = suppressed]
                 ELSE IF pg.total_size = 0
                 THEN [seen EXCEPT !.pc = "raised",
                                   !.ev = Event("uploading", "ZeroDivisionError", uploaded, 0, FALSE)]
                 ELSE IF ~PercentDiffAtLeast(progress, pg.last_progress, upload_min_progress_change)
                 THEN [seen EXCEPT !.ev = suppressed]
                 ELSE Emitted([seen EXCEPT !.last_progress = progress],
                              "uploading", uploaded, pg.total_size, TRUE)
    /\ UNCHANGED <<config, user_data, video_info_cache, last_update_time, now, files, status_msgs, hnd, up, rt, fm>>

\* time passes while the transfer runs
ProgressTick ==
    /\ pg.pc = "running"
    /\ now < ProgressEpoch + MaxProgressTime
    /\ now' = now + 1
    /\ UNCHANGED <<config, user_data, video_info_cache, last_update_time, files, status_msgs, hnd, up, rt, fm, pg>>

InitProgress ==
    /\ user_data = <<>>
    /\ config \in CoordConfigs
    /\ files = <<>>
    /\ video_info_cache = <<>>
    /\ last_update_time = <<>>
    /\ status_msgs = <<>>
    /\ hnd = [h \in Handlers |-> IdleHandler]
    /\ now = ProgressEpoch
    /\ up = UpIdle
    /\ rt = RtIdle
    /\ fm = FmIdle
    /\ \/ pg = [PgIdle EXCEPT !.kind = "download", !.pc = "running"]
       \/ \E t \in UploadTotals : pg = [PgIdle EXCEPT !.kind = "upload", !.pc = "running", !.total_size = t]

NextProgress ==
    \/ \E b \in 1..MaxBytes, tb \in SampleTotals, tbe \in SampleTotals :
          progress_hook_downloading(b, tb, tbe)
    \/ progress_hook_finished
    \/ \E c \in ChunkSizes : UploadProgress_update(c)
    \/ ProgressTick

SpecProgress == InitProgress /\ [][NextProgress]_vars

\* The step in which a reporter handled a non-terminal sample.
SampleHandled == pg'.sample # pg.sample

\* C13: the 'finished' event of the download is always forwarded to the
\* sink, whatever the time since the last emission.
C13_FinishedAlwaysForwarded ==
    pg.ev.status = "finished" => pg.ev.result = "emitted"

\* C14: a non-terminal sample is forwarded only if 2 seconds have passed
\* since the last emission and the magnitude changed by the minimum delta
\* (2 percentage points with a known total, 2 MB without); a suppressed
\* sample leaves the last emission time and the last percentage unchanged.
C14_BothConditions ==
    [][SampleHandled =>
          LET e == pg'.ev IN
          /\ e.result = "emitted" =>
                /\ now - pg.last_update >= 2
                /\ IF e.total # 0
                   THEN PercentDiffAtLeast(Percent(e.bytes, e.total), pg.last_progress, 2)
                   ELSE e.bytes - pg.last_size >= 2
          /\ e.result = "suppressed" =>
                /\ pg'.last_update = pg.last_update
                /\ pg'.last_progress = pg.last_progress]_vars

\* C15: over samples of strictly increasing byte counts, an emitted
\* percentage is never below the one emitted before it, and a non-terminal
\* emission comes at least 2 seconds after the previous one.
C15_MonotonePercentages ==
    [][SampleHandled /\ pg'.ev.result = "emitted" =>
          /\ pg'.ev.has_pct => PercentLeq(pg.emitted_pct, pg'.emitted_pct)
          /\ pg.emitted_at # 0 => now - pg.emitted_at >= 2]_vars

\* C16: for a sample whose total is 0 or absent no percentage is computed:
\* the status carries raw bytes only and nothing is divided by the total.
C16_NoPercentWithoutTotal ==
    pg.ev.status \in {"downloading", "uploading"} /\ pg.ev.total = 0 =>
        ~pg.ev.has_pct /\ pg.ev.result # "ZeroDivisionError"

\* C16 witness: a download sample without a total was emitted as raw bytes.
C16_Witness ==
    /\ pg.kind = "download"
    /\ pg.ev.status = "downloading" /\ pg.ev.result = "emitted"
    /\ pg.ev.total = 0 /\ ~pg.ev.has_pct

\* ===================================== handoff of download progress to the loop

\* The status message the samples of the download are edited into.
HandoffMessage == 1

\* "if time_diff < 2: return" at the head of update_status.
throttled(lut, m, t) == m \in DOMAIN lut /\ t - lut[m] < StatusInterval

\* future.result(timeout=0.5) timed out: the exception is swallowed by
\* progress_hook and the future is not cancelled, so the coroutine stays
\* scheduled on the event loop.
stall(queue, downloaded) == Append(queue, downloaded)

\* The tail of progress_hook for a sample that passed the limiter:
\* last_update is set and _safe_callback(status) is handed to the event loop
\* with run_coroutine_threadsafe; the worker waits at most 0.5 s. Either
\* the callback ran to its end in that time (update_status throttled the
\* text or edited it into the message), or the wait timed out.
handoff(downloaded, completed, edit) ==
    /\ pg.kind = "handoff"
    /\ downloaded > pg.sample
    /\ now - pg.last_update >= update_interval
    /\ completed => pg.stalled = <<>>
    /\ LET seen == [pg EXCEPT !.sample = downloaded, !.last_update = now]
           sent == completed /\ ~throttled(last_update_time, HandoffMessage, now) /\ edit = "ok"
       IN  /\ pg' = IF completed
                    THEN [seen EXCEPT !.sink = IF sent THEN Append(@, [bytes |-> downloaded, stalled |-> FALSE]) ELSE @]
                    ELSE [seen EXCEPT !.stalled = stall(@, downloaded)]
           /\ last_update_time' = IF sent THEN (HandoffMessage :> now) @@ last_update_time
                                  ELSE last_update_time
    /\ UNCHANGED <<config, user_data, video_info_cache, now, files, status_msgs, hnd, up, rt, fm>>

\* The event loop runs a callback whose handoff had timed out, up to the
\* await of message.edit_text in update_status (or to the throttle's return).
safe_callback_starts ==
    /\ pg.kind = "handoff"
    /\ pg.stalled # <<>>
    /\ pg' = [pg EXCEPT !.stalled = Tail(@),
                        !.inflight = IF throttled(last_update_time, HandoffMessage, now) THEN @
                                     ELSE @ \cup {[bytes |-> Head(pg.stalled), current_time |-> now]}]
    /\ UNCHANGED <<config, user_data, video_info_cache, last_update_time, now, files, status_msgs, hnd, up, rt, fm>>

\* An edit in flight ends: the text reached the message and
\* last_update_time is set to the time its update_status call began, or the
\* edit failed and the error is swallowed.
edit_text_done(e, edit) ==
    /\ pg.kind = "handoff"
    /\ e \in pg.inflight
    /\ pg' = [pg EXCEPT !.inflight = @ \ {e},
                        !.sink = IF edit = "ok" THEN Append(@, [bytes |-> e.bytes, stalled |-> TRUE]) ELSE @]
    /\ last_update_time' = IF edit = "ok" THEN (HandoffMessage :> e.current_time) @@ last_update_time
                           ELSE last_update_time
    /\ UNCHANGED <<config, user_data, video_info_cache, now, files, status_msgs, hnd, up, rt, fm>>

\* time passes while the download runs
HandoffTick ==
    /\ pg.kind = "handoff"
    /\ now < ProgressEpoch + MaxProgressTime
    /\ now' = now + 1
    /\ UNCHANGED <<config, user_data, video_info_cache, last_update_time, files, status_msgs, hnd, up, rt, fm, pg>>

InitHandoff ==
    /\ user_data = <<>>
    /\ config \in CoordConfigs
    /\ files = <<>>
    /\ video_info_cache = <<>>
    /\ last_update_time = <<>>
    /\ status_msgs = <<>>
    /\ hnd = [h \in Handlers |-> IdleHandler]
    /\ now = ProgressEpoch
    /\ up = UpIdle
    /\ rt = RtIdle
    /\ fm = FmIdle
    /\ pg = [PgIdle EXCEPT !.kind = "handoff", !.pc = "running"]

NextHandoff ==
    \/ \E b \in 1..MaxBytes, c \in BOOLEAN, edit \in EditOutcomes : handoff(b, c, edit)
    \/ safe_callback_starts
    \/ \E b \in 1..MaxBytes, t \in ProgressEpoch..(ProgressEpoch + MaxProgressTime), edit \in EditOutcomes :
           edit_text_done([bytes |-> b, current_time |-> t], edit)
    \/ HandoffTick

SpecHandoff == InitHandoff /\ [][NextHandoff]_vars

\* C28: a sample whose handoff timed out is dropped: it never reaches the
\* status message later.
C28_StalledSampleDropped ==
    \A i \in DOMAIN pg.sink : ~pg.sink[i].stalled

\* C30: the samples that reached the status message are in non-decreasing
\* byte-count order.
C30_SamplesInOrder ==
    \A i, j \in DOMAIN pg.sink : i < j => pg.sink[i].bytes <= pg.sink[j].bytes

\* C38: whatever the interleaving of update_status calls on one status
\* message, last_update_time of the message never decreases (and so two
\* successful edits are never stamped less than 2 seconds apart out of
\* order).
C38_StampNeverDecreases ==
    [][\A m \in DOMAIN last_update_time : last_update_time'[m] >= last_update_time[m]]_vars

\* ======================================================= the handler, fairly

\* The steps of the button_callback invocation h after the hand-over of the
\* fetch: each is the end of a worker task or of a network call.
HandlerStep(h) ==
    \/ \E ok \in BOOLEAN, s \in ArtifactSizes : worker_download(h, ok, s)
    \/ \E e \in EditOutcomes : download_return(h, e)
    \/ \E e \in EditOutcomes : size_check(h, e)
    \/ \E ok \in BOOLEAN, e \in EditOutcomes : offload_done(h, ok, e)
    \/ \E s \in {"ok", "TimedOut", "error"}, e \in EditOutcomes : inline_done(h, s, e)
    \/ \E r \in BOOLEAN : cleanup(h, r)
    \/ \E e \in EditOutcomes : finish(h, e)

\* The coordinator with requests for one video at one instant, under the
\* assumption that every worker task and every network call of a handler
\* ends.
NextFair ==
    \/ \E e \in EditOutcomes : download_command(<<"abc">>, TRUE, e)
    \/ \E h \in Handlers, m \in 1..MaxRequests, e \in EditOutcomes : button_callback(h, m, e)
    \/ \E h \in Handlers, e \in EditOutcomes : progress_update(h, e)
    \/ \E h \in Handlers : HandlerStep(h)

SpecFair == Init /\ [][NextFair]_vars /\ \A h \in Handlers : WF_vars(HandlerStep(h))

\* C33: every handler that entered Fetching eventually returns with a
\* terminal outcome.
C33_HandlerReturns ==
    \A h \in Handlers : (hnd[h].pc = "fetching") ~> (hnd[h].pc = "done" /\ hnd[h].outcome # "none")

\* A handler returned after its upload failed and the file was removed.
C33_Witness ==
    \E h \in Handlers : /\ hnd[h].pc = "done" /\ hnd[h].exc = "Exception" /\ hnd[h].cleanups = 1
                        /\ hnd[h].file_size > config.MAX_DOWNLOAD_SIZE * MiB

\* ===================================================== probes of _get_server

\* The probe of a server whose request has not ended yet.
Pending == "pending"

\* _get_server up to "await asyncio.gather(*tasks, return_exceptions=True)":
\* one test_server task per server of the list, all started together.
probe_all ==
    /\ up.pc = "select"
    /\ up' = [up EXCEPT !.pc = "gather", !.probes = [i \in DOMAIN default_servers |-> Pending]]
    /\ UNCHANGED <<config, user_data, video_info_cache, last_update_time, now, files, status_msgs, hnd, rt, fm, pg>>

\* The request of one test_server task ends with an HTTP status, a
\* connection error or its 10 s timeout. first_answer remembers the server
\* whose probe was the first to answer 200 or 404.
probe_answers(i, outcome) ==
    /\ up.pc = "gather"
    /\ up.probes[i] = Pending
    /\ up' = [up EXCEPT !.probes[i] = outcome,
                        !.first_answer = IF @ = 0 /\ test_server(default_servers[i], outcome) # "None"
                                         THEN i ELSE @]
    /\ UNCHANGED <<config, user_data, video_info_cache, last_update_time, now, files, status_msgs, hnd, rt, fm, pg>>

\* asyncio.gather returns when every task has ended; the rest of
\* _get_server picks the server from the results in list order.
gather_returns ==
    /\ up.pc = "gather"
    /\ \A i \in DOMAIN default_servers : up.probes[i] # Pending
    /\ up' = [up EXCEPT !.pc = "post", !.server = get_server(up.probes)]
    /\ UNCHANGED <<config, user_data, video_info_cache, last_update_time, now, files, status_msgs, hnd, rt, fm, pg>>

InitProbe ==
    /\ config \in CoordConfigs
    /\ files = (UploadPath :> 10 * MiB)
    /\ CoordIdle
    /\ up = [UpIdle EXCEPT !.pc = "select"]
    /\ rt = RtIdle
    /\ fm = FmIdle
    /\ pg = PgIdle

NextProbe ==
    \/ probe_all
    \/ \E i \in DOMAIN default_servers, o \in ProbeOutcomes : probe_answers(i, o)
    \/ gather_returns

SpecProbe == InitProbe /\ [][NextProbe]_vars

\* C29: once one probe has answered 200 or 404, the next step of the
\* selection is its return with the server of that first answer: it waits
\* for no other probe to answer or time out.
C29_FirstAnswerSelected ==
    [][up.pc = "gather" /\ up.first_answer # 0
         => up'.pc = "post" /\ up'.server = default_servers[up.first_answer]]_vars

\* ================================================= file_sender and the sink

\* The seconds Telegram asks to wait in a RetryAfter answer.
retry_after == 1

\* How the message.edit_text awaited by update_status can end for file_sender.
SenderEditOutcomes == {"ok", "RetryAfter", "error"}

\* file_sender reads the next chunk and awaits progress.update(len(chunk))
\* before "yield chunk". When UploadProgress.update suppresses the sample,
\* or update_status returns at its throttle, nothing is awaited and the
\* chunk is yielded to the POST; else update awaits self.callback(status),
\* which awaits message.edit_text, with the chunk read and not yet yielded.
file_sender_read(chunk_size) ==
    /\ pg.kind = "sender" /\ pg.pc = "running"
    /\ pg.uploaded + chunk_size <= pg.total_size
    /\ LET uploaded == pg.uploaded + chunk_size
           progress == Percent(uploaded, pg.total_size)
           seen == [pg EXCEPT !.uploaded = uploaded, !.read_at = now]
       IN  pg' = IF now - pg.last_update < upload_update_interval
                    \/ ~PercentDiffAtLeast(progress, pg.last_progress, upload_min_progress_change)
                 THEN [seen EXCEPT !.yielded = uploaded]
                 ELSE IF throttled(last_update_time, HandoffMessage, now)
                 THEN [seen EXCEPT !.yielded = uploaded, !.last_progress = progress, !.last_update = now]
                 ELSE [seen EXCEPT !.pc = "edit", !.last_progress = progress, !.last_update = now]
    /\ UNCHANGED <<config, user_data, video_info_cache, last_update_time, now, files, status_msgs, hnd, up, rt, fm>>

\* message.edit_text ends: update_status stamps last_update_time and
\* returns, or swallows the error and returns, or sleeps for the seconds of
\* a RetryAfter. When it returns, file_sender yields the chunk.
sender_edit_done(edit) ==
    /\ pg.kind = "sender" /\ pg.pc = "edit"
    /\ pg' = IF edit = "RetryAfter"
             THEN [pg EXCEPT !.pc = "sleep", !.wake_at = now + retry_after]
             ELSE [pg EXCEPT !.pc = "running", !.yielded = pg.uploaded]
    /\ last_update_time' = IF edit = "ok" THEN (HandoffMessage :> pg.read_at) @@ last_update_time
                           ELSE last_update_time
    /\ UNCHANGED <<config, user_data, video_info_cache, now, files, status_msgs, hnd, up, rt, fm>>

\* "await asyncio.sleep(e.retry_after)" ends, update_status returns and
\* file_sender yields the chunk.
sender_sleep_done ==
    /\ pg.kind = "sender" /\ pg.pc = "sleep"
    /\ now >= pg.wake_at
    /\ pg' = [pg EXCEPT !.pc = "running", !.yielded = pg.uploaded]
    /\ UNCHANGED <<config, user_data, video_info_cache, last_update_time, now, files, status_msgs, hnd, up, rt, fm>>

\* time passes while the upload runs
SenderTick ==
    /\ pg.kind = "sender"
    /\ now < ProgressEpoch + MaxProgressTime
    /\ now' = now + 1
    /\ UNCHANGED <<config, user_data, video_info_cache, last_update_time, files, status_msgs, hnd, up, rt, fm, pg>>

InitSender ==
    /\ user_data = <<>>
    /\ config \in CoordConfigs
    /\ files = <<>>
    /\ video_info_cache = <<>>
    /\ last_update_time = <<>>
    /\ status_msgs = <<>>
    /\ hnd = [h \in Handlers |-> IdleHandler]
    /\ now = ProgressEpoch
    /\ up = UpIdle
    /\ rt = RtIdle
    /\ fm = FmIdle
    /\ \E t \in UploadTotals \ {0} : pg = [PgIdle EXCEPT !.kind = "sender", !.pc = "running", !.total_size = t]

NextSender ==
    \/ \E c \in ChunkSizes : file_sender_read(c)
    \/ \E edit \in SenderEditOutcomes : sender_edit_done(edit)
    \/ sender_sleep_done
    \/ SenderTick

SpecSender == InitSender /\ [][NextSender]_vars

\* C31: the streaming of chunks never waits for the sink: no time passes
\* between the reading of a chunk and its hand-over to the transmission
\* because a status update is in flight or sleeping on a rate limit.
C31_StreamNeverWaits ==
    pg.kind = "sender" /\ pg.yielded < pg.uploaded => now = pg.read_at

\* ============================================ sessions, users and keyboards

\* The users of the bot, each in a private chat whose id is the user's, the
\* two commands that register a session, and the catalogs of video variants
\* get_video_info can return for a video (they differ between two requests
\* for the same video, e.g. with and without cookies).
Users == {1, 2}
Commands == {"download", "cookieytdl"}
Catalogs == { {<<"360p", "mp4">>}, {<<"360p", "mp4">>, <<"720p", "mp4">>} }

\* UserManager.is_allowed, with no SUDO_USERS and no USERS of the environment.
is_allowed(cfg, user_id) == user_id \in cfg.allowed_users

\* callback_data=f"v_{quality}_{ext}_{info['video_id']}"
video_callback_data(quality, ext, video_id) == <<"v", quality, ext>> \o video_id

\* context.user_data.get('use_cookies', False)
use_cookies(ud, u) == IF u \in DOMAIN ud THEN ud[u].use_cookies ELSE FALSE

\* The body of download_command for user u with user_data ud: the status
\* message is sent to the chat of the command; when the video resolves, the
\* session is stored under the video id and the keyboard is shown.
register(u, cmd, video_id, catalog, resolved, ud) ==
    LET m == Len(status_msgs) + 1 IN
    /\ user_data' = ud
    /\ IF resolved
       THEN /\ video_info_cache' =
                  (video_id :> [message_id |-> m, chat_id |-> u, use_cookies |-> use_cookies(ud, u),
                                catalog |-> catalog]) @@ video_info_cache
            /\ status_msgs' = Append(status_msgs,
                  [video_id |-> video_id, chat_id |-> u, command |-> cmd,
                   keyboard |-> {video_callback_data(v[1], v[2], video_id) : v \in catalog}])
       ELSE /\ video_info_cache' = video_info_cache
            /\ status_msgs' = Append(status_msgs,
                  [video_id |-> video_id, chat_id |-> u, command |-> cmd, keyboard |-> {}])

\* /download by user u, behind @restricted().
restricted_download_command(u, video_id, catalog, resolved) ==
    /\ Len(status_msgs) < MaxRequests
    /\ IF is_allowed(config, u)
       THEN register(u, "download", video_id, catalog, resolved, user_data)
       ELSE UNCHANGED <<user_data, video_info_cache, status_msgs>>
    /\ UNCHANGED <<config, last_update_time, now, files, hnd, up, rt, fm, pg>>

\* /cookieytdl by user u, behind @restricted(): without a cookie file the
\* command returns; else it sets user_data['use_cookies'] and calls
\* download_command.
cookieytdl_command(u, cookie_file, video_id, catalog, resolved) ==
    /\ Len(status_msgs) < MaxRequests
    /\ IF is_allowed(config, u) /\ cookie_file
       THEN register(u, "cookieytdl", video_id, catalog, resolved,
                     (u :> [use_cookies |-> TRUE]) @@ user_data)
       ELSE UNCHANGED <<user_data, video_info_cache, status_msgs>>
    /\ UNCHANGED <<config, last_update_time, now, files, hnd, up, rt, fm, pg>>

\* /removeuser and /adduser by a sudo user.
remove_user(u) ==
    /\ u \in config.allowed_users
    /\ config' = [config EXCEPT !.allowed_users = @ \ {u}]
    /\ UNCHANGED <<user_data, video_info_cache, last_update_time, now, files, status_msgs, hnd, up, rt, fm, pg>>

add_user(u) ==
    /\ u \notin config.allowed_users
    /\ config' = [config EXCEPT !.allowed_users = @ \cup {u}]
    /\ UNCHANGED <<user_data, video_info_cache, last_update_time, now, files, status_msgs, hnd, up, rt, fm, pg>>

\* button_callback for a press by the user of the chat on a button of
\* status message m, up to the call of downloader.download: the key is
\* split, the session is looked up under its last component, and the fetch
\* is started with the components of the key and the data of the session.
pressed_button_callback(m, key) ==
    /\ Len(hnd) < MaxPresses
    /\ m \in DOMAIN status_msgs
    /\ key \in status_msgs[m].keyboard
    /\ LET parts == split(key)
           u == status_msgs[m].chat_id
           press == [message |-> m, user |-> u, allowed |-> is_allowed(config, u)]
       IN  hnd' = Append(hnd,
              IF Len(parts) # 4
              THEN press @@ [pc |-> "done", outcome |-> "Rejected"]
              ELSE IF ~session_known(video_info_cache, parts[4])
              THEN press @@ [pc |-> "done", outcome |-> "Expired"]
              ELSE LET video_data == video_info_cache[parts[4]] IN
                   press @@ [pc |-> "fetching", outcome |-> "none", video_id |-> parts[4],
                             format_type |-> parts[2][1], format_ext |-> parts[3][1],
                             in_catalog |-> <<parts[2][1], parts[3][1]>> \in video_data.catalog,
                             chat_id |-> video_data.chat_id,
                             use_cookies |-> video_data.use_cookies])
    /\ UNCHANGED <<config, user_data, video_info_cache, last_update_time, now, files, status_msgs, up, rt, fm, pg>>

\* The rest of button_callback: the artifact is delivered to
\* video_data['chat_id'] and the session is deleted, or the handler ends in
\* an except clause and the session stays.
session_finish(i, ok) ==
    /\ i \in DOMAIN hnd
    /\ hnd[i].pc = "fetching"
    /\ hnd' = [hnd EXCEPT ![i] = [@ EXCEPT !.pc = "done",
                 !.outcome = IF ok /\ hnd[i].video_id \in DOMAIN video_info_cache
                             THEN "Complete" ELSE "Failed"]]
    /\ video_info_cache' = IF ok /\ hnd[i].video_id \in DOMAIN video_info_cache
                           THEN Without(video_info_cache, hnd[i].video_id)
                           ELSE video_info_cache
    /\ UNCHANGED <<config, user_data, last_update_time, now, files, status_msgs, up, rt, fm, pg>>

InitSession ==
    /\ config = [MAX_DOWNLOAD_SIZE |-> 20, FORCE_GOFILE |-> FALSE, MAX_CONCURRENT_DOWNLOADS |-> 1,
                 allowed_users |-> Users]
    /\ user_data = <<>>
    /\ video_info_cache = <<>>
    /\ last_update_time = <<>>
    /\ now = 0
    /\ files = <<>>
    /\ status_msgs = <<>>
    /\ hnd = <<>>
    /\ up = UpIdle
    /\ rt = RtIdle
    /\ fm = FmIdle
    /\ pg = PgIdle

NextSession ==
    \/ \E u \in Users, v \in VideoIds, c \in Catalogs, r \in BOOLEAN :
          restricted_download_command(u, v, c, r)
    \/ \E u \in Users, f \in BOOLEAN, v \in VideoIds, c \in Catalogs, r \in BOOLEAN :
          cookieytdl_command(u, f, v, c, r)
    \/ \E u \in Users : remove_user(u)
    \/ \E u \in Users : add_user(u)
    \/ \E m \in 1..MaxRequests, c \in UNION Catalogs, v \in VideoIds :
          pressed_button_callback(m, video_callback_data(c[1], c[2], v))
    \/ \E i \in 1..MaxPresses, ok \in BOOLEAN : session_finish(i, ok)

SpecSession == InitSession /\ [][NextSession]_vars

\* A press that started a fetch.
Fetches == {i \in DOMAIN hnd : hnd[i].outcome \notin {"Rejected", "Expired"}}

\* C32: a fetch is started only for a variant of the catalog of the session
\* the key addresses.
C32_UnknownVariantRejected ==
    \A i \in Fetches : hnd[i].in_catalog

\* C34: every key download_command puts on a keyboard is split by
\* button_callback into its four components, the last being the id the
\* session was registered under.
C34_KeyRoundTrip ==
    \A m \in DOMAIN status_msgs : \A c \in UNION Catalogs :
        LET key == video_callback_data(c[1], c[2], status_msgs[m].video_id)
            parts == split(key)
        IN  key \in status_msgs[m].keyboard =>
               /\ Len(parts) = 4
               /\ <<parts[1][1], parts[2][1], parts[3][1]>> = <<"v", c[1], c[2]>>
               /\ parts[4] = status_msgs[m].video_id

\* C35: the artifact of a fetch goes to the chat of the status message
\* whose button was pressed.
C35_DeliveredToPressedChat ==
    \A i \in Fetches : hnd[i].chat_id = status_msgs[hnd[i].message].chat_id

\* C36: a fetch is started only by a user who is allowed at the time of the
\* press.
C36_OnlyAllowedUsersFetch ==
    \A i \in Fetches : hnd[i].allowed

\* C37: a session uses the stored cookies only if the command that
\* registered it was /cookieytdl.
C37_CookiesOnlyOnRequest ==
    \A v \in DOMAIN video_info_cache :
        video_info_cache[v].use_cookies =>
            status_msgs[video_info_cache[v].message_id].command = "cookieytdl"

====
